---------------------------- MODULE Spec2Model ----------------------------
(***************************************************************************)
(* Verification model of the job-market-analytics pipeline:                *)
(*   - api_client.py      : JSearchClient.search_jobs and main (Spec)      *)
(*   - data_validation.py : the validation script (SpecValidate) and       *)
(*                          categorize_seniority (SpecSeniority)           *)
(*   - data_cleaning.py   : column renaming (SpecRename) and the script   *)
(*                          followed by the validation (SpecPipeline)      *)
(* Each stage is a separate script of the repository, so each has its own  *)
(* specification over the shared variables.                                *)
(***************************************************************************)
EXTENDS Integers, Sequences, FiniteSets, TLC

VARIABLES
    pc,             \* position of api_client.main / search_jobs
    outcome,        \* how main ended: "running", "saved", "config_error", "unexpected_error"
    q,              \* index of the current search query of main (1-based)
    page_num,       \* search_jobs: loop variable
    all_jobs,       \* search_jobs: local list all_jobs
    failed_pages,   \* search_jobs: local list failed_pages
    main_all_jobs,  \* main: local list all_jobs
    calls,          \* requests.get / time.sleep calls of the current search_jobs call
    raw_jobs_json,  \* content of raw_jobs.json (NoFile until written)
    \* data_validation.py
    vphase,         \* the section of the script that has run last
    df,             \* the table read from cleaned_jobs.csv
    df_validated,   \* the table being validated
    rows_removed_critical,
    duplicates,
    salary_errors,
    validated_csv,  \* content of validated_jobs.csv (NoFile until written)
    \* categorize_seniority applied to one title
    title,
    seniority_level,
    \* data_cleaning.py, renaming
    raw_columns,    \* the keys of the raw records, in order of first appearance
    columns,        \* df.columns
    renamed,        \* line 55 has run
    \* data_cleaning.py
    cphase,         \* the section of the script that has run last, or the exception
    raw_jobs,       \* the list read from raw_jobs.json
    clean_columns,  \* df.columns
    clean_df,       \* df: one function from column name to cell per row
    clean_salary_errors,
    cleaned_csv     \* content of cleaned_jobs.csv (NoFile until written)

fetchVars == <<pc, outcome, q, page_num, all_jobs, failed_pages, main_all_jobs,
               calls, raw_jobs_json>>
valVars == <<vphase, df, df_validated, rows_removed_critical, duplicates,
             salary_errors, validated_csv>>
senVars == <<title, seniority_level>>
renVars == <<raw_columns, columns, renamed>>

cleanVars == <<cphase, raw_jobs, clean_columns, clean_df, clean_salary_errors,
               cleaned_csv>>

vars == <<fetchVars, valVars, senVars, renVars, cleanVars>>

(***************************************************************************)
(* Bounds of the model and constants of the program                        *)
(***************************************************************************)
\* number of search queries main runs (the program runs 10 locations x 5 titles)
NumQueries == 2
\* largest number of records in one page's 'data' array
MaxJobs == 2
\* main: client.search_jobs(query=search_query, num_pages=2)
NumPages == 2
\* search_jobs(self, query, num_pages=1, page=1): main never passes page
StartPage == 1
\* time.sleep(2) before the retry, in milliseconds
RetrySleepMs == 2000
\* self.rate_limit_delay = 0.5, in milliseconds
RateLimitDelayMs == 500

NoFile == <<"no file">>

(***************************************************************************)
(* What one requests.get call can produce: an exception of the requests    *)
(* library, or a response with a status code; a 200 response has a body,   *)
(* grouped by how lines 76-78 treat it.                                    *)
(***************************************************************************)
NoBody == [json |-> "none", data |-> "none", n |-> 0]

Bodies ==
    {[json |-> "malformed", data |-> "none", n |-> 0],      \* response.json() raises JSONDecodeError
     [json |-> "nonobject", data |-> "none", n |-> 0],      \* a JSON list, number, string or null
     [json |-> "object", data |-> "absent", n |-> 0],       \* an object without a 'data' key
     [json |-> "object", data |-> "null", n |-> 0],         \* 'data' is null or a number
     [json |-> "object", data |-> "scalars", n |-> 1]}      \* 'data' is a list of non-objects
    \cup {[json |-> "object", data |-> "list", n |-> k] : k \in 0..MaxJobs}

Exceptions == {"Timeout", "ConnectionError", "RequestException"}

Responses ==
    {[exc |-> e, status |-> 0, body |-> NoBody] : e \in Exceptions}
    \cup {[exc |-> "none", status |-> s, body |-> NoBody] : s \in {401, 403, 429, 500}}
    \cup {[exc |-> "none", status |-> 200, body |-> b] : b \in Bodies}

NoResponse == [exc |-> "none", status |-> 0, body |-> NoBody]

\* one record of a page's 'data' array
Job(qi, p, i, isdict) == [is_dict |-> isdict, q |-> qi, page |-> p, i |-> i]

\* data.get('data', []) for a body that is a JSON object with an iterable 'data'
JobsOf(qi, p, resp) ==
    IF resp.body.data = "list"
    THEN [i \in 1..resp.body.n |-> Job(qi, p, i, TRUE)]
    ELSE IF resp.body.data = "scalars"
    THEN [i \in 1..resp.body.n |-> Job(qi, p, i, FALSE)]
    ELSE <<>>

\* requests.get with params {'query': query, 'page': page_num, 'num_pages': 1}
GetCall(qi, p, resp) == [ev |-> "get", q |-> qi, page |-> p, ms |-> 0, resp |-> resp]
\* time.sleep
SleepCall(qi, p, ms) == [ev |-> "sleep", q |-> qi, page |-> p, ms |-> ms, resp |-> NoResponse]

(***************************************************************************)
(* search_jobs, lines 61-106                                               *)
(***************************************************************************)
\* a mutant: a 429 is not retried
IsRateLimited_never(resp) == FALSE

\* line 62: if response.status_code == 429
IsRateLimited(resp) == resp.exc = "none" /\ resp.status = 429

\* a mutant: 401 is handled like any other error status
Classify_401_as_failed(resp) ==
    IF resp.exc /= "none" THEN "failed"
    ELSE IF resp.status = 200
    THEN IF resp.body.json = "malformed" THEN "failed"
         ELSE IF resp.body.json = "nonobject" THEN "AttributeError"
         ELSE IF resp.body.data = "null" THEN "TypeError"
         ELSE "ok"
    ELSE IF resp.status = 403 THEN "break"
    ELSE "failed"

\* a mutant: 403 is recorded as a failed page and the loop goes on
Classify_403_as_failed(resp) ==
    IF resp.exc /= "none" THEN "failed"
    ELSE IF resp.status = 200
    THEN IF resp.body.json = "malformed" THEN "failed"
         ELSE IF resp.body.json = "nonobject" THEN "AttributeError"
         ELSE IF resp.body.data = "null" THEN "TypeError"
         ELSE "ok"
    ELSE IF resp.status = 401 THEN "ValueError"
    ELSE "failed"

\* a mutant: a timeout is not caught and escapes search_jobs
Classify_timeout_escapes(resp) ==
    IF resp.exc = "Timeout" THEN "Timeout"
    ELSE IF resp.exc /= "none" THEN "failed"
    ELSE IF resp.status = 200
    THEN IF resp.body.json = "malformed" THEN "failed"
         ELSE IF resp.body.json = "nonobject" THEN "AttributeError"
         ELSE IF resp.body.data = "null" THEN "TypeError"
         ELSE "ok"
    ELSE IF resp.status = 401 THEN "ValueError"
    ELSE IF resp.status = 403 THEN "break"
    ELSE "failed"

\* lines 73-106: what the try block does with the response it ends up with
\*   "ok"      the page's jobs are appended            (lines 74-79)
\*   "failed"  the page is appended to failed_pages    (80-82, 92-94, 96-106)
\*   "break"   403: leave the loop                     (88-90)
\*   otherwise the name of the exception that leaves search_jobs:
\*     ValueError (84-86), AttributeError (data.get on a non-object, 77),
\*     TypeError (all_jobs.extend of a non-iterable, 78)
Classify(resp) ==
    IF resp.exc /= "none" THEN "failed"
    ELSE IF resp.status = 200
    THEN IF resp.body.json = "malformed" THEN "failed"
         ELSE IF resp.body.json = "nonobject" THEN "AttributeError"
         ELSE IF resp.body.data = "null" THEN "TypeError"
         ELSE "ok"
    ELSE IF resp.status = 401 THEN "ValueError"
    ELSE IF resp.status = 403 THEN "break"
    ELSE "failed"

Raised(c) == c \notin {"ok", "failed", "break"}

\* main, lines 196-200: which except clause catches the exception
MainCatches(e) == IF e = "ValueError" THEN "config_error" ELSE "unexpected_error"

\* a mutant: the delay is taken after every page, the last one included
HasNextPage_always(p) == TRUE

\* lines 108-110: is there a page after this one
HasNextPage(p) == p < StartPage + NumPages - 1

\* a mutant: the loop stops one page early
PageRange_one_short == StartPage..(StartPage + NumPages - 2)

\* line 44: range(page, page + num_pages)
PageRange == StartPage..(StartPage + NumPages - 1)

(***************************************************************************)
(* Actions of the fetch stage                                              *)
(***************************************************************************)
\* main line 148, __init__ lines 13-20
Construct(have_credentials) ==
    /\ pc = "construct"
    /\ IF have_credentials
       THEN /\ pc' = "main_loop"
            /\ outcome' = outcome
       ELSE /\ pc' = "done"
            /\ outcome' = MainCatches("ValueError")
    /\ UNCHANGED <<q, page_num, all_jobs, failed_pages, main_all_jobs, calls,
                   raw_jobs_json>>
    /\ UNCHANGED <<valVars, senVars, renVars, cleanVars>>

\* main line 181 and search_jobs lines 41-44: enter search_jobs for query q
StartSearch ==
    /\ pc = "main_loop"
    /\ q <= NumQueries
    /\ all_jobs' = <<>>
    /\ failed_pages' = <<>>
    /\ calls' = <<>>
    /\ page_num' = StartPage
    /\ pc' = IF StartPage \in PageRange THEN "request" ELSE "return"
    /\ UNCHANGED <<outcome, q, main_all_jobs, raw_jobs_json>>
    /\ UNCHANGED <<valVars, senVars, renVars, cleanVars>>

\* lines 73-110 for the response the iteration ends up with; log is the calls
\* made so far in this iteration, the response's get included
Handle(resp, log) ==
    LET c == Classify(resp) IN
    /\ all_jobs' = IF c = "ok" THEN all_jobs \o JobsOf(q, page_num, resp) ELSE all_jobs
    /\ failed_pages' = IF c = "failed" THEN Append(failed_pages, page_num)
                       ELSE failed_pages
    /\ IF Raised(c)
       THEN /\ pc' = "done"
            /\ outcome' = MainCatches(c)
            /\ page_num' = page_num
            /\ calls' = log
       ELSE /\ outcome' = outcome
            /\ calls' = IF c /= "break" /\ HasNextPage(page_num)
                         THEN Append(log, SleepCall(q, page_num, RateLimitDelayMs))
                         ELSE log
            /\ IF c = "break" \/ page_num + 1 \notin PageRange
               THEN /\ pc' = "return"
                    /\ page_num' = page_num
               ELSE /\ pc' = "request"
                    /\ page_num' = page_num + 1
    /\ UNCHANGED <<q, main_all_jobs, raw_jobs_json>>

\* lines 54-64 (and 73-110 when the response is not a 429)
FirstRequest(resp) ==
    /\ pc = "request"
    /\ IF IsRateLimited(resp)
       THEN /\ pc' = "retry"
            /\ calls' = calls \o <<GetCall(q, page_num, resp),
                                   SleepCall(q, page_num, RetrySleepMs)>>
            /\ UNCHANGED <<outcome, q, page_num, all_jobs, failed_pages,
                           main_all_jobs, raw_jobs_json>>
       ELSE Handle(resp, Append(calls, GetCall(q, page_num, resp)))
    /\ UNCHANGED <<valVars, senVars, renVars, cleanVars>>

\* lines 66-71 and 73-110
RetryRequest(resp) ==
    /\ pc = "retry"
    /\ Handle(resp, Append(calls, GetCall(q, page_num, resp)))
    /\ UNCHANGED <<valVars, senVars, renVars, cleanVars>>

\* search_jobs lines 112-118 and main lines 182-183
Return ==
    /\ pc = "return"
    /\ main_all_jobs' = main_all_jobs \o all_jobs
    /\ q' = q + 1
    /\ pc' = IF q + 1 <= NumQueries THEN "main_loop" ELSE "save"
    /\ UNCHANGED <<outcome, page_num, all_jobs, failed_pages, calls, raw_jobs_json>>
    /\ UNCHANGED <<valVars, senVars, renVars, cleanVars>>

\* print_sample_job line 137: sample.items() needs the first job to be an object
SampleRaises(jobs) == jobs /= <<>> /\ ~jobs[1].is_dict

\* main lines 185-194: print_sample_job, then save_jobs_to_json
Save ==
    /\ pc = "save"
    /\ pc' = "done"
    /\ IF SampleRaises(main_all_jobs)
       THEN /\ outcome' = MainCatches("AttributeError")
            /\ raw_jobs_json' = raw_jobs_json
       ELSE /\ outcome' = "saved"
            /\ raw_jobs_json' = main_all_jobs
    /\ UNCHANGED <<q, page_num, all_jobs, failed_pages, main_all_jobs, calls>>
    /\ UNCHANGED <<valVars, senVars, renVars, cleanVars>>

\* the fetch stage before main runs
FetchIdle ==
    /\ pc = "construct"
    /\ outcome = "running"
    /\ q = 1
    /\ page_num = StartPage
    /\ all_jobs = <<>>
    /\ failed_pages = <<>>
    /\ main_all_jobs = <<>>
    /\ calls = <<>>
    /\ raw_jobs_json = NoFile

\* the validation script before it runs
ValidateIdle ==
    /\ vphase = "idle"
    /\ df = <<>>
    /\ df_validated = <<>>
    /\ rows_removed_critical = 0
    /\ duplicates = 0
    /\ salary_errors = 0
    /\ validated_csv = NoFile

SeniorityIdle ==
    /\ title = <<>>
    /\ seniority_level = "unset"

RenameIdle ==
    /\ raw_columns = <<>>
    /\ columns = <<>>
    /\ renamed = FALSE

\* the cleaning script before it runs
CleanIdle ==
    /\ cphase = "idle"
    /\ raw_jobs = <<>>
    /\ clean_columns = {}
    /\ clean_df = <<>>
    /\ clean_salary_errors = 0
    /\ cleaned_csv = NoFile

Init ==
    /\ FetchIdle
    /\ ValidateIdle
    /\ SeniorityIdle
    /\ RenameIdle
    /\ CleanIdle

Next ==
    \/ \E c \in BOOLEAN : Construct(c)
    \/ StartSearch
    \/ \E r \in Responses : FirstRequest(r)
    \/ \E r \in Responses : RetryRequest(r)
    \/ Return
    \/ Save

Spec == Init /\ [][Next]_vars


(***************************************************************************)
(* Properties of the fetch stage                                           *)
(***************************************************************************)
Pages == StartPage..(StartPage + NumPages - 1)

\* the requests issued for page p by the current search_jobs call, in order
GetsOf(p) == SelectSeq(calls, LAMBDA c : c.ev = "get" /\ c.page = p)

\* the iteration of page p has ended (normally, by break or by an exception)
PageDone(p) ==
    \/ p < page_num
    \/ p = page_num /\ pc \notin {"request", "retry"} /\ GetsOf(p) /= <<>>

Count(seq, x) == Cardinality({i \in 1..Len(seq) : seq[i] = x})

\* the 'data' array a logged response carries, as records of its query and page
DataArray(c) ==
    IF c.ev = "get" /\ c.resp.exc = "none" /\ c.resp.status = 200
       /\ c.resp.body.json = "object" /\ c.resp.body.data \in {"list", "scalars"}
    THEN [i \in 1..c.resp.body.n |->
            [is_dict |-> c.resp.body.data = "list", q |-> c.q, page |-> c.page, i |-> i]]
    ELSE <<>>

RECURSIVE ConcatData(_)
ConcatData(log) ==
    IF log = <<>> THEN <<>>
    ELSE ConcatData(SubSeq(log, 1, Len(log) - 1)) \o DataArray(log[Len(log)])

\* a response that lines 80-82 and 92-106 record as a failed page
IsFailure(r) ==
    \/ r.exc /= "none"
    \/ r.status = 200 /\ r.body.json = "malformed"
    \/ r.status \notin {200, 401, 403}

\* C1: a page whose first response is 429 is retried exactly once after a
\* 2-second sleep; no page is ever requested more than twice; the retry's
\* response is recorded by the same rules as a first response, and a second
\* 429 records the page as failed and moves on without a third request.
C1_RetryOnce ==
    \A p \in Pages :
        LET g == GetsOf(p) IN
        /\ Len(g) <= 2
        /\ Len(g) = 2 => g[1].resp.status = 429
        /\ (p = page_num /\ pc = "retry") =>
              /\ Len(g) = 1
              /\ calls[Len(calls)] = [ev |-> "sleep", q |-> q, page |-> p,
                                      ms |-> 2000, resp |-> NoResponse]
        /\ (PageDone(p) /\ g /= <<>>) =>
              /\ g[1].resp.status = 429 => Len(g) = 2
              /\ Count(failed_pages, p) = (IF IsFailure(g[Len(g)].resp) THEN 1 ELSE 0)
        /\ (Len(g) = 2 /\ g[2].resp.status = 429) =>
              /\ Count(failed_pages, p) = 1
              /\ IF p < StartPage + NumPages - 1
                 THEN page_num > p
                 ELSE pc \notin {"request", "retry"}
        /\ \A i \in 1..Len(calls) :
              (calls[i].ev = "get" /\ calls[i].page = p /\ calls[i].resp.status = 429
               /\ \A j \in 1..(i - 1) : ~(calls[j].ev = "get" /\ calls[j].page = p))
              => /\ i < Len(calls)
                 /\ calls[i + 1].ev = "sleep" /\ calls[i + 1].ms = 2000
                 /\ (i + 1 < Len(calls) =>
                        calls[i + 2].ev = "get" /\ calls[i + 2].page = p)

\* a second 429 on the retry of the first page, and the loop has moved on
C1_Witness ==
    /\ Len(GetsOf(StartPage)) = 2
    /\ GetsOf(StartPage)[2].resp.status = 429
    /\ pc = "request"
    /\ page_num = StartPage + 1

Seen(status) == \E i \in 1..Len(calls) : calls[i].ev = "get" /\ calls[i].resp.status = status

\* C2: a 401 (first response or retry response) aborts the run: ValueError
\* leaves search_jobs, nothing is requested after it, this search's jobs never
\* reach main, main starts no further search and writes no raw_jobs.json.
C2_Abort401 ==
    Seen(401) =>
        /\ pc = "done"
        /\ outcome = "config_error"
        /\ raw_jobs_json = NoFile
        /\ calls[Len(calls)].ev = "get"
        /\ calls[Len(calls)].resp.status = 401
        /\ calls[Len(calls)].q = q
        /\ q <= NumQueries
        /\ \A i \in 1..Len(main_all_jobs) : main_all_jobs[i].q < q
        /\ \A i \in 1..(Len(calls) - 1) : calls[i].resp.status /= 401

\* 401 on the retry of the second page of a later query, jobs already collected
C2_Witness ==
    /\ Seen(401)
    /\ q > 1
    /\ main_all_jobs /= <<>>
    /\ all_jobs /= <<>>
    /\ Len(GetsOf(StartPage + 1)) = 2

\* C3: a 403 for page p ends the pagination and keeps the results: nothing is
\* requested after it, no exception leaves search_jobs, and the list returned
\* is exactly the data of the successful pages before p.
C3_Stop403 ==
    Seen(403) =>
        /\ pc \in {"return", "main_loop", "save", "done"}
        /\ calls[Len(calls)].ev = "get"
        /\ calls[Len(calls)].resp.status = 403
        /\ calls[Len(calls)].page = page_num
        /\ \A i \in 1..Len(calls) : calls[i].page <= page_num
        /\ all_jobs = ConcatData(calls)
        /\ \A i \in 1..Len(all_jobs) : all_jobs[i].page < page_num
        /\ Count(failed_pages, page_num) = 0
        /\ pc = "return" => outcome = "running"
        /\ pc /= "return" =>
              /\ q = calls[Len(calls)].q + 1
              /\ Len(main_all_jobs) >= Len(all_jobs)
              /\ SubSeq(main_all_jobs, Len(main_all_jobs) - Len(all_jobs) + 1,
                        Len(main_all_jobs)) = all_jobs

\* 403 on the second page after a first page that delivered jobs
C3_Witness ==
    /\ Seen(403)
    /\ pc = "return"
    /\ page_num = StartPage + 1
    /\ all_jobs /= <<>>

\* C4: only missing credentials or a 401 aborts the run: a run that ended
\* without writing raw_jobs.json either had no credentials (it made no
\* request) or received a 401.
C4_OnlyCredentialsOr401Abort ==
    (pc = "done" /\ outcome /= "saved") =>
        \/ calls = <<>> /\ q = 1
        \/ Seen(401)

\* a response that the claim says is skipped and recorded as failed
IsSkipped(r) ==
    \/ r.exc \in {"Timeout", "ConnectionError"}
    \/ r.exc = "none" /\ r.status = 200 /\ r.body.json = "malformed"

\* C5: a page that times out, hits a connection error or answers 200 with
\* malformed JSON contributes no jobs, is appended to failed_pages exactly
\* once, leaves the jobs of the other pages as they are, and the loop goes
\* on with the next page of the range.
C5_SkipAndRecord ==
    \A i \in 1..Len(calls) :
        (calls[i].ev = "get" /\ IsSkipped(calls[i].resp)) =>
            LET p == calls[i].page IN
            /\ Count(failed_pages, p) = 1
            /\ \A k \in 1..Len(all_jobs) : all_jobs[k].page /= p
            /\ all_jobs = ConcatData(calls)
            /\ IF p < StartPage + NumPages - 1
               THEN /\ i < Len(calls)
                    /\ calls[i + 1] = [ev |-> "sleep", q |-> calls[i].q, page |-> p,
                                       ms |-> 500, resp |-> NoResponse]
                    /\ page_num > p
                    /\ \/ pc = "request" /\ page_num = p + 1 /\ i + 1 = Len(calls)
                       \/ GetsOf(p + 1) /= <<>>
               ELSE /\ i = Len(calls)
                    /\ pc \in {"return", "main_loop", "save", "done"}
                    /\ (pc = "done" => q = NumQueries + 1)

\* the first page timed out and the second page still delivered its jobs
C5_Witness ==
    /\ pc = "return"
    /\ GetsOf(StartPage) /= <<>>
    /\ GetsOf(StartPage)[Len(GetsOf(StartPage))].resp.exc = "Timeout"
    /\ failed_pages = <<StartPage>>
    /\ all_jobs /= <<>>


\* the pages of the get calls of the current search, in call order
RequestedPages == LET g == SelectSeq(calls, LAMBDA c : c.ev = "get")
                  IN  [i \in 1..Len(g) |-> g[i].page]

\* C11: search_jobs requests exactly the pages page .. page+num_pages-1 in
\* ascending order, each page in one loop iteration only, and, absent a
\* 401/403, the list it returns is the concatenation in page order of the
\* 'data' arrays of the pages that answered 200 with well-formed JSON, every
\* record present and in its original order.
C11_PagesAndResult ==
    LET rp == RequestedPages IN
    /\ \A i \in 1..Len(rp) :
          /\ rp[i] \in StartPage..(StartPage + NumPages - 1)
          /\ i > 1 => rp[i] \in {rp[i - 1], rp[i - 1] + 1}
    /\ rp /= <<>> => rp[1] = StartPage
    /\ \A i \in 1..Len(calls) : calls[i].ev = "get" => calls[i].q = calls[1].q
    /\ all_jobs = ConcatData(calls)
    /\ (pc = "return" /\ ~Seen(403) /\ ~Seen(401)) =>
          /\ {rp[i] : i \in 1..Len(rp)} = StartPage..(StartPage + NumPages - 1)
          /\ \A p \in StartPage..(StartPage + NumPages - 1) :
                LET g == GetsOf(p)
                    d == DataArray(g[Len(g)])
                IN  \A k \in 1..Len(d) :
                       \E n \in 1..Len(all_jobs) :
                          /\ all_jobs[n] = d[k]
                          /\ k > 1 => (n > 1 /\ all_jobs[n - 1] = d[k - 1])
          /\ \A n \in 1..(Len(all_jobs) - 1) :
                \/ all_jobs[n].page < all_jobs[n + 1].page
                \/ /\ all_jobs[n].page = all_jobs[n + 1].page
                   /\ all_jobs[n + 1].i = all_jobs[n].i + 1

\* both pages answered 200 with two records each, the first after a retry
C11_Witness ==
    /\ pc = "return"
    /\ Len(GetsOf(StartPage)) = 2
    /\ Len(all_jobs) = 4
    /\ all_jobs[2].page = StartPage /\ all_jobs[2].i = 2
    /\ all_jobs[3].page = StartPage + 1 /\ all_jobs[3].i = 1

\* C12: the fixed inter-page delay separates every two consecutive page
\* iterations of one search_jobs call, after a successful page as after a
\* failed one; no delay follows the last page of the range, nor a page that
\* ends the loop with 403 or 401.
C12_InterPageDelay ==
    /\ \A i \in 1..Len(calls) :
          \* the first request of a later page comes right after the delay
          (calls[i].ev = "get" /\ calls[i].page > StartPage
           /\ (i = 1 \/ calls[i - 1].page /= calls[i].page)) =>
              /\ i > 1
              /\ calls[i - 1] = [ev |-> "sleep", q |-> calls[i].q,
                                 page |-> calls[i].page - 1, ms |-> 500,
                                 resp |-> NoResponse]
    /\ \A i \in 1..Len(calls) :
          \* a delay follows the last response of a page that is not the last
          (calls[i].ev = "sleep" /\ calls[i].ms = 500) =>
              /\ i > 1
              /\ calls[i - 1].ev = "get"
              /\ calls[i - 1].page = calls[i].page
              /\ calls[i - 1].resp.status \notin {401, 403}
              /\ calls[i].page < StartPage + NumPages - 1
              /\ i < Len(calls) => /\ calls[i + 1].ev = "get"
                                   /\ calls[i + 1].page = calls[i].page + 1
              /\ i = Len(calls) => pc = "request" /\ page_num = calls[i].page + 1
    /\ \A p \in StartPage..(StartPage + NumPages - 2) :
          \* every finished page but the last is followed by exactly one delay
          (p < page_num) =>
              Cardinality({i \in 1..Len(calls) : calls[i].ev = "sleep"
                              /\ calls[i].ms = 500 /\ calls[i].page = p}) = 1
    /\ (pc \in {"return", "main_loop", "save", "done"} /\ calls /= <<>>) =>
          calls[Len(calls)].ev = "get"

\* a failed first page and a successful second page: one delay, between them
C12_Witness ==
    /\ pc = "return"
    /\ failed_pages = <<StartPage>>
    /\ all_jobs /= <<>>
    /\ Len(calls) = 3
    /\ calls[2].ev = "sleep" /\ calls[2].ms = 500

(***************************************************************************)
(* data_validation.py, step 4: categorize_seniority                        *)
(* A cell of the table is <<>> when missing (None / NaN) and <<v>> when    *)
(* it holds the value v.                                                   *)
(***************************************************************************)
Missing == <<>>
Some(v) == <<v>>
\* pd.isna / Series.notna of one cell
IsNa(cell) == cell = Missing

\* largest number of fragments a title of the model is made of
MaxFragments == 2

\* pieces of job titles; a title is a concatenation of up to MaxFragments
Fragments ==
    {"Senior ", "Sr", ".", " ", "Jr", "VP", "Intern", "Analyst", "Data",
     "Coordinator", "Clerk", "LEAD", "mid"}

RECURSIVE TitlesOfLen(_)
TitlesOfLen(n) ==
    IF n = 0 THEN {""}
    ELSE {t \o f : t \in TitlesOfLen(n - 1), f \in Fragments}

TitleStrings == UNION {TitlesOfLen(n) : n \in 0..MaxFragments}

\* lines 207-212, in the order of the dict
SENIORITY_KEYWORDS ==
    << [level |-> "Executive",
        keywords |-> <<"ceo", "cfo", "coo", "cto", "chief", "president", "vp",
                       "vice president", "director", "principal">>],
       [level |-> "Senior",
        keywords |-> <<"senior", "sr.", "sr ", "lead", "principal", "staff",
                       "manager">>],
       [level |-> "Mid",
        keywords |-> <<"mid", "mid-level", "analyst", "engineer", "specialist",
                       "coordinator">>],
       [level |-> "Junior",
        keywords |-> <<"junior", "jr.", "jr ", "entry", "entry-level",
                       "associate", "intern", "apprentice">>] >>

\* str.lower() of one ASCII character
LowerChar(c) ==
    CASE c = "A" -> "a" [] c = "B" -> "b" [] c = "C" -> "c" [] c = "D" -> "d"
      [] c = "E" -> "e" [] c = "F" -> "f" [] c = "G" -> "g" [] c = "H" -> "h"
      [] c = "I" -> "i" [] c = "J" -> "j" [] c = "K" -> "k" [] c = "L" -> "l"
      [] c = "M" -> "m" [] c = "N" -> "n" [] c = "O" -> "o" [] c = "P" -> "p"
      [] c = "Q" -> "q" [] c = "R" -> "r" [] c = "S" -> "s" [] c = "T" -> "t"
      [] c = "U" -> "u" [] c = "V" -> "v" [] c = "W" -> "w" [] c = "X" -> "x"
      [] c = "Y" -> "y" [] c = "Z" -> "z" [] OTHER -> c

\* line 219: str(title).lower()
RECURSIVE Lower(_)
Lower(str) ==
    IF Len(str) = 0 THEN ""
    ELSE LowerChar(SubSeq(str, 1, 1)) \o Lower(SubSeq(str, 2, Len(str)))

\* line 224: keyword in title_lower
Contains(str, keyword) ==
    \E i \in 1..(Len(str) - Len(keyword) + 1) :
        SubSeq(str, i, i + Len(keyword) - 1) = keyword

\* lines 222-225 for one level: some keyword of the level occurs
LevelMatches(entry, title_lower) ==
    \E k \in 1..Len(entry.keywords) : Contains(title_lower, entry.keywords[k])

\* a mutant: `if not title` instead of pd.isna(title)
categorize_seniority_falsy_unknown(cell) ==
    IF IsNa(cell) \/ cell = Some("") THEN "Unknown"
    ELSE LET title_lower == Lower(cell[1])
             hits == {n \in 1..Len(SENIORITY_KEYWORDS) :
                         LevelMatches(SENIORITY_KEYWORDS[n], title_lower)}
         IN  IF hits = {} THEN "Mid"
             ELSE SENIORITY_KEYWORDS[CHOOSE n \in hits : \A m \in hits : n <= m].level

\* a mutant: the levels are tried from Junior up to Executive
categorize_seniority_reversed(cell) ==
    IF IsNa(cell) THEN "Unknown"
    ELSE LET title_lower == Lower(cell[1])
             hits == {n \in 1..Len(SENIORITY_KEYWORDS) :
                         LevelMatches(SENIORITY_KEYWORDS[n], title_lower)}
         IN  IF hits = {} THEN "Mid"
             ELSE SENIORITY_KEYWORDS[CHOOSE n \in hits : \A m \in hits : n >= m].level

\* lines 214-228
categorize_seniority(cell) ==
    IF IsNa(cell) THEN "Unknown"
    ELSE LET title_lower == Lower(cell[1])
             hits == {n \in 1..Len(SENIORITY_KEYWORDS) :
                         LevelMatches(SENIORITY_KEYWORDS[n], title_lower)}
         IN  IF hits = {} THEN "Mid"
             ELSE SENIORITY_KEYWORDS[CHOOSE n \in hits : \A m \in hits : n <= m].level

\* line 231 for one cell of the title column
Categorize ==
    /\ seniority_level = "unset"
    /\ seniority_level' = categorize_seniority(title)
    /\ UNCHANGED <<title, fetchVars, valVars, renVars, cleanVars>>

InitSeniority ==
    /\ FetchIdle
    /\ CleanIdle
    /\ ValidateIdle
    /\ RenameIdle
    /\ title \in {Missing} \cup {Some(t) : t \in TitleStrings}
    /\ seniority_level = "unset"

NextSeniority == Categorize

SpecSeniority == InitSeniority /\ [][NextSeniority]_vars

AllKeywords ==
    {"ceo", "cfo", "coo", "cto", "chief", "president", "vp", "vice president",
     "director", "principal", "senior", "sr.", "sr ", "lead", "staff", "manager",
     "mid", "mid-level", "analyst", "engineer", "specialist", "coordinator",
     "junior", "jr.", "jr ", "entry", "entry-level", "associate", "intern",
     "apprentice"}

\* some position of the title holds the keyword, compared case-insensitively
Occurs(str, keyword) ==
    \E i \in 1..Len(str) :
        /\ i + Len(keyword) - 1 <= Len(str)
        /\ \A j \in 1..Len(keyword) :
              LowerChar(SubSeq(str, i + j - 1, i + j - 1)) = SubSeq(keyword, j, j)

\* C7: categorize_seniority is total over title strings: the result is one of
\* the five levels, it is 'Mid' when no keyword occurs in the title, and it is
\* 'Unknown' exactly when the title is absent (never for a present title, the
\* empty string included).
C7_SeniorityTotal ==
    seniority_level /= "unset" =>
        /\ seniority_level \in {"Executive", "Senior", "Mid", "Junior", "Unknown"}
        /\ (seniority_level = "Unknown") <=> (title = <<>>)
        /\ (title /= <<>> /\ \A k \in AllKeywords : ~Occurs(title[1], k))
              => seniority_level = "Mid"

\* the empty title, present: classified, and as Mid
C7_Witness ==
    /\ title = <<"">>
    /\ seniority_level = "Mid"


ExecutiveKeywords ==
    {"ceo", "cfo", "coo", "cto", "chief", "president", "vp", "vice president",
     "director", "principal"}
SeniorKeywords == {"senior", "sr.", "sr ", "lead", "principal", "staff", "manager"}
MidKeywords == {"mid", "mid-level", "analyst", "engineer", "specialist", "coordinator"}
JuniorKeywords ==
    {"junior", "jr.", "jr ", "entry", "entry-level", "associate", "intern",
     "apprentice"}

\* some keyword of the set occurs in the title, compared case-insensitively
AnyOccurs(str, keywords) == \E k \in keywords : Occurs(str, k)

\* C13: for a present title with keywords of several levels the result is
\* the first level, in the order Executive, Senior, Mid, Junior, one of whose
\* keywords occurs in the lower-cased title; a Junior keyword decides only
\* when no Executive, Senior or Mid keyword occurs anywhere in the title.
C13_FirstLevelWins ==
    (seniority_level /= "unset" /\ title /= <<>>) =>
        LET t == title[1] IN
        /\ AnyOccurs(t, ExecutiveKeywords) => seniority_level = "Executive"
        /\ (~AnyOccurs(t, ExecutiveKeywords) /\ AnyOccurs(t, SeniorKeywords))
              => seniority_level = "Senior"
        /\ (~AnyOccurs(t, ExecutiveKeywords) /\ ~AnyOccurs(t, SeniorKeywords)
            /\ AnyOccurs(t, MidKeywords)) => seniority_level = "Mid"
        /\ seniority_level = "Junior" <=>
              /\ AnyOccurs(t, JuniorKeywords)
              /\ ~AnyOccurs(t, ExecutiveKeywords)
              /\ ~AnyOccurs(t, SeniorKeywords)
              /\ ~AnyOccurs(t, MidKeywords)

\* a title with a Senior and a Junior keyword: Senior wins
C13_Witness ==
    /\ title = <<"Senior Intern">>
    /\ seniority_level = "Senior"

(***************************************************************************)
(* data_validation.py: the validation script                               *)
(* A row of the table carries its pandas index label and the columns the   *)
(* script reads: id, title, min_salary, max_salary and one has_<category>  *)
(* column (every has_ column goes through the same loop, lines 89-91).     *)
(* seniority_level is <<>> until step 4 creates the column.                *)
(***************************************************************************)
\* largest number of rows of cleaned_jobs.csv
MaxRows == 2

IdCells == {Missing, Some("a"), Some("b")}
TitleCells == {Missing, Some("Senior Data Analyst")}
\* (min_salary, max_salary): none published, min <= max, min > max, one missing
SalaryCells == {<<Missing, Missing>>, <<Some(1), Some(2)>>, <<Some(2), Some(1)>>,
                <<Some(2), Missing>>, <<Missing, Some(1)>>}
\* a has_ cell: empty in the file, or a flag that is set
HasCells == {Missing, Some(TRUE)}

\* what one row of the file can hold
RowCells == IdCells \X TitleCells \X SalaryCells \X HasCells

Row(i, cells) ==
    [index |-> i, id |-> cells[1], title |-> cells[2], min_salary |-> cells[3][1],
     max_salary |-> cells[3][2], has_databases |-> cells[4],
     seniority_level |-> Missing]

\* the table pd.read_csv builds from n rows: index labels 0..n-1
Table(n, cells) == [i \in 1..n |-> Row(i - 1, cells[i])]

\* a mutant: dropna(subset=['id', 'title'], how='all')
DropNaCritical_how_all(t) == SelectSeq(t, LAMBDA r : ~IsNa(r.id) \/ ~IsNa(r.title))

\* a mutant: dropna(subset=['id'])
DropNaCritical_id_only(t) == SelectSeq(t, LAMBDA r : ~IsNa(r.id))

\* line 84: df.dropna(subset=['id', 'title'])
DropNaCritical(t) == SelectSeq(t, LAMBDA r : ~IsNa(r.id) /\ ~IsNa(r.title))

\* lines 89-91: fillna(False).astype(bool) on every has_ column
FillSkillColumns(t) ==
    [i \in 1..Len(t) |->
        [t[i] EXCEPT !.has_databases = IF IsNa(@) THEN Some(FALSE) ELSE @]]

\* line 108: duplicated(subset=['id']) (keep='first': a row is flagged when an
\* earlier row has the same id)
Duplicated(t) == [i \in 1..Len(t) |-> \E j \in 1..(i - 1) : t[j].id = t[i].id]

\* the rows of t at the positions keep, in table order
RECURSIVE RowsAt(_, _, _)
RowsAt(t, keep, i) ==
    IF i > Len(t) THEN <<>>
    ELSE (IF i \in keep THEN <<t[i]>> ELSE <<>>) \o RowsAt(t, keep, i + 1)

\* a mutant: keep='last'
DropDuplicates_keep_last(t) ==
    RowsAt(t, {i \in 1..Len(t) : ~\E j \in (i + 1)..Len(t) : t[j].id = t[i].id}, 1)

\* line 113: drop_duplicates(subset=['id'], keep='first')
DropDuplicates(t) == RowsAt(t, {i \in 1..Len(t) : ~Duplicated(t)[i]}, 1)

\* a mutant: a missing value compares as greater
NanGt_missing_true(a, b) == IsNa(a) \/ IsNa(b) \/ a[1] > b[1]

\* Series > Series on one row: a comparison with NaN is False
NanGt(a, b) == ~IsNa(a) /\ ~IsNa(b) /\ a[1] > b[1]

\* lines 130-131: salary_data and salary_errors
SalaryErrorsValidation(t) ==
    LET salary_data == SelectSeq(t, LAMBDA r : ~IsNa(r.min_salary))
    IN  Cardinality({i \in 1..Len(salary_data) :
                        NanGt(salary_data[i].min_salary, salary_data[i].max_salary)})

\* data_cleaning.py line 306: the same check without the notna filter
SalaryErrorsCleaning(t) ==
    Cardinality({i \in 1..Len(t) : NanGt(t[i].min_salary, t[i].max_salary)})

\* lines 84-98, step 1
HandleMissing ==
    /\ vphase = "loaded"
    /\ vphase' = "missing_handled"
    /\ df_validated' = FillSkillColumns(DropNaCritical(df))
    /\ rows_removed_critical' = Len(df) - Len(DropNaCritical(df))
    /\ UNCHANGED <<df, duplicates, salary_errors, validated_csv>>
    /\ UNCHANGED <<fetchVars, senVars, renVars, cleanVars>>

\* lines 107-117, step 2
RemoveDuplicates ==
    /\ vphase = "missing_handled"
    /\ vphase' = "deduplicated"
    /\ duplicates' = Cardinality({i \in 1..Len(df_validated) : Duplicated(df_validated)[i]})
    /\ df_validated' = IF duplicates' > 0 THEN DropDuplicates(df_validated)
                       ELSE df_validated
    /\ UNCHANGED <<df, rows_removed_critical, salary_errors, validated_csv>>
    /\ UNCHANGED <<fetchVars, senVars, renVars, cleanVars>>

\* lines 126-195, step 3: the checks only count and print (description_length
\* is a temporary column, dropped at line 294)
ValidateQuality ==
    /\ vphase = "deduplicated"
    /\ vphase' = "quality_checked"
    /\ salary_errors' = SalaryErrorsValidation(df_validated)
    /\ UNCHANGED <<df, df_validated, rows_removed_critical, duplicates, validated_csv>>
    /\ UNCHANGED <<fetchVars, senVars, renVars, cleanVars>>

\* lines 230-231, step 4
CategorizeTitles ==
    /\ vphase = "quality_checked"
    /\ vphase' = "categorized"
    /\ df_validated' = [i \in 1..Len(df_validated) |->
            [df_validated[i] EXCEPT
                !.seniority_level = Some(categorize_seniority(df_validated[i].title))]]
    /\ UNCHANGED <<df, rows_removed_critical, duplicates, salary_errors, validated_csv>>
    /\ UNCHANGED <<fetchVars, senVars, renVars, cleanVars>>

\* lines 255-306, step 5 and the save: the report divides by len(df) (line 262)
ReportAndSave ==
    /\ vphase = "categorized"
    /\ IF Len(df) = 0
       THEN /\ vphase' = "ZeroDivisionError"
            /\ validated_csv' = validated_csv
       ELSE /\ vphase' = "saved"
            /\ validated_csv' = df_validated
    /\ UNCHANGED <<df, df_validated, rows_removed_critical, duplicates, salary_errors>>
    /\ UNCHANGED <<fetchVars, senVars, renVars, cleanVars>>

\* line 15: df = pd.read_csv('cleaned_jobs.csv')
InitValidate ==
    /\ FetchIdle
    /\ CleanIdle
    /\ SeniorityIdle
    /\ RenameIdle
    /\ vphase = "loaded"
    /\ \E n \in 0..MaxRows : \E cells \in [1..n -> RowCells] : df = Table(n, cells)
    /\ df_validated = <<>>
    /\ rows_removed_critical = 0
    /\ duplicates = 0
    /\ salary_errors = 0
    /\ validated_csv = NoFile

NextValidate ==
    \/ HandleMissing
    \/ RemoveDuplicates
    \/ ValidateQuality
    \/ CategorizeTitles
    \/ ReportAndSave

SpecValidate == InitValidate /\ [][NextValidate]_vars


(***************************************************************************)
(* Properties of the validation script                                     *)
(***************************************************************************)
AfterMissing ==
    {"missing_handled", "deduplicated", "quality_checked", "categorized", "saved",
     "ZeroDivisionError"}
AfterDedup == AfterMissing \ {"missing_handled"}
AfterCheck == AfterDedup \ {"deduplicated"}

\* positions of the loaded rows whose id and title are both present
PresentRows == {i \in 1..Len(df) : df[i].id /= <<>> /\ df[i].title /= <<>>}

\* among those, the first row of each id
FirstOfId == {i \in PresentRows : \A j \in PresentRows : j < i => df[j].id /= df[i].id}

\* the loaded row at position i is still in df_validated
Kept(i) == \E k \in 1..Len(df_validated) : df_validated[k].index = i - 1

\* C6: deduplication by id keeps, for each id, the first row in table order
\* carrying it and removes every later one; and it is idempotent: a second
\* pass over its own output finds no duplicate and removes no row.
C6_DedupKeepsFirst ==
    vphase \in AfterDedup =>
        /\ Len(df_validated) = Cardinality(FirstOfId)
        /\ \A i \in 1..Len(df) : Kept(i) <=> i \in FirstOfId
        /\ \A k \in 1..Len(df_validated) : \A l \in 1..Len(df_validated) :
              k < l => /\ df_validated[k].index < df_validated[l].index
                       /\ df_validated[k].id /= df_validated[l].id
        /\ \A k \in 1..Len(df_validated) :
              df_validated[k].id = df[df_validated[k].index + 1].id
        /\ duplicates = Cardinality(PresentRows) - Cardinality(FirstOfId)
        /\ Cardinality({i \in 1..Len(df_validated) : Duplicated(df_validated)[i]}) = 0
        /\ DropDuplicates(df_validated) = df_validated

\* two rows with the same id: the second was removed, the first kept
C6_Witness ==
    /\ vphase = "deduplicated"
    /\ duplicates = 1
    /\ Len(df) = 2
    /\ df[1].min_salary /= df[2].min_salary
    /\ Len(df_validated) = 1
    /\ df_validated[1].index = 0

\* min_salary > max_salary with both values present
MinAboveMax(r) ==
    /\ r.min_salary /= <<>>
    /\ r.max_salary /= <<>>
    /\ r.min_salary[1] > r.max_salary[1]

\* C9: the min_salary <= max_salary check counts the rows with min > max as
\* a warning and never raises: whatever is missing, the step completes, its
\* count is the number of rows with both values present and min > max, and
\* it neither removes nor alters a row.
C9_SalaryCheckWarnsOnly ==
    /\ [](vphase \in AfterCheck =>
            salary_errors = Cardinality({k \in 1..Len(df_validated) :
                                            MinAboveMax(df_validated[k])}))
    /\ [](SalaryErrorsCleaning(df) =
            Cardinality({i \in 1..Len(df) : MinAboveMax(df[i])}))
    /\ [][vphase = "deduplicated" =>
            /\ vphase' = "quality_checked"
            /\ df_validated' = df_validated
            /\ df' = df]_vars

\* checked a table with a flagged row, a row without max_salary and nothing else lost
C9_Witness ==
    /\ vphase = "quality_checked"
    /\ salary_errors = 1
    /\ Len(df_validated) = 2
    /\ df_validated[1].max_salary = <<>>
    /\ df_validated[1].min_salary /= <<>>

\* the statement of C10 as written: the stage drops a row iff id or title is missing
C10_DropsIffIdOrTitleMissing ==
    vphase = "saved" =>
        \A i \in 1..Len(df) : ~Kept(i) <=> (df[i].id = <<>> \/ df[i].title = <<>>)

\* C10 (amended): the missing-value step drops a row iff its id or title is
\* missing; a row with both present survives that step whatever else is
\* missing and can be removed later only by deduplication, as a repeat of an
\* earlier kept id; the other missing values stay missing and a missing
\* has_<category> value becomes False.
C10_MissingValuePolicy ==
    vphase \in AfterMissing =>
        /\ rows_removed_critical = Len(df) - Cardinality(PresentRows)
        /\ vphase = "missing_handled" =>
              /\ Len(df_validated) = Cardinality(PresentRows)
              /\ \A i \in 1..Len(df) : Kept(i) <=> i \in PresentRows
        /\ \A i \in 1..Len(df) : Kept(i) => i \in PresentRows
        /\ \A i \in PresentRows :
              ~Kept(i) => /\ vphase /= "missing_handled"
                          /\ \E j \in PresentRows : j < i /\ df[j].id = df[i].id
        /\ \A k \in 1..Len(df_validated) :
              LET r == df_validated[k]
                  o == df[r.index + 1]
              IN  /\ r.id = o.id
                  /\ r.title = o.title
                  /\ r.min_salary = o.min_salary
                  /\ r.max_salary = o.max_salary
                  /\ r.has_databases = IF o.has_databases = <<>> THEN <<FALSE>>
                                       ELSE o.has_databases

\* one row dropped for its missing title; the kept one has no salary and an
\* empty has_ cell, now False
C10_Witness ==
    /\ vphase = "missing_handled"
    /\ Len(df) = 2
    /\ df[1].title = <<>>
    /\ df[1].id /= <<>>
    /\ Len(df_validated) = 1
    /\ df_validated[1].min_salary = <<>>
    /\ df_validated[1].max_salary = <<>>
    /\ df[2].has_databases = <<>>
    /\ df_validated[1].has_databases = <<FALSE>>


(***************************************************************************)
(* data_cleaning.py, step 1: standardize field names                       *)
(***************************************************************************)
\* largest number of columns of the raw table
MaxColumns == 2

\* lines 29-53
rename_mapping ==
    [job_id |-> "id",
     job_title |-> "title",
     job_description |-> "description",
     job_location |-> "location",
     job_city |-> "city",
     job_state |-> "state",
     job_country |-> "country",
     job_latitude |-> "latitude",
     job_longitude |-> "longitude",
     job_is_remote |-> "is_remote",
     job_employment_type |-> "employment_type",
     job_publisher |-> "publisher",
     job_apply_link |-> "apply_link",
     job_apply_is_direct |-> "apply_is_direct",
     job_google_link |-> "google_link",
     job_min_salary |-> "min_salary",
     job_max_salary |-> "max_salary",
     job_salary_period |-> "salary_period",
     job_onet_soc |-> "onet_soc",
     job_onet_job_zone |-> "onet_job_zone",
     job_posted_at |-> "posted_at_relative",
     job_posted_at_datetime_utc |-> "posted_at",
     job_posted_at_timestamp |-> "posted_at_timestamp"]

\* keys of a raw record that the mapping does not list (job_benefits and the
\* employer fields are read downstream under these names)
OtherRawKeys == {"job_benefits", "employer_name", "employer_logo", "id"}

RawKeys == DOMAIN rename_mapping \cup OtherRawKeys

\* a mutant: strip the "job_" prefix of every column instead of using the mapping
RenameColumn_strip_prefix(c) ==
    IF Len(c) > 4 /\ SubSeq(c, 1, 4) = "job_" THEN SubSeq(c, 5, Len(c)) ELSE c

\* DataFrame.rename(columns=mapping) on one column label
RenameColumn(c) == IF c \in DOMAIN rename_mapping THEN rename_mapping[c] ELSE c

\* line 55: df = df.rename(columns=rename_mapping)
RenameColumns ==
    /\ ~renamed
    /\ renamed' = TRUE
    /\ columns' = [i \in 1..Len(columns) |-> RenameColumn(columns[i])]
    /\ UNCHANGED <<raw_columns, fetchVars, valVars, senVars, cleanVars>>

\* line 24: df = pd.DataFrame(raw_jobs); its columns are the distinct keys
InitRename ==
    /\ FetchIdle
    /\ CleanIdle
    /\ ValidateIdle
    /\ SeniorityIdle
    /\ \E n \in 0..MaxColumns : \E cols \in [1..n -> RawKeys] :
          /\ \A i \in 1..n : \A j \in 1..n : i /= j => cols[i] /= cols[j]
          /\ raw_columns = cols
    /\ columns = raw_columns
    /\ renamed = FALSE

NextRename == RenameColumns

SpecRename == InitRename /\ [][NextRename]_vars

\* the 23 raw keys the claim calls known
KnownKeys ==
    {"job_id", "job_title", "job_description", "job_location", "job_city",
     "job_state", "job_country", "job_latitude", "job_longitude", "job_is_remote",
     "job_employment_type", "job_publisher", "job_apply_link", "job_apply_is_direct",
     "job_google_link", "job_min_salary", "job_max_salary", "job_salary_period",
     "job_onet_soc", "job_onet_job_zone", "job_posted_at",
     "job_posted_at_datetime_utc", "job_posted_at_timestamp"}

\* C8: renaming is a bijection on the known key set and the identity
\* elsewhere: the 23 known raw keys get 23 pairwise-distinct new names, and a
\* column whose name is no key of the mapping keeps its name.
C8_RenameBijection ==
    /\ DOMAIN rename_mapping = KnownKeys
    /\ Cardinality(KnownKeys) = 23
    /\ Cardinality({rename_mapping[k] : k \in KnownKeys}) = 23
    /\ renamed =>
          /\ Len(columns) = Len(raw_columns)
          /\ \A i \in 1..Len(columns) :
                /\ raw_columns[i] \notin KnownKeys => columns[i] = raw_columns[i]
                /\ raw_columns[i] \in KnownKeys =>
                      /\ columns[i] = rename_mapping[raw_columns[i]]
                      /\ columns[i] /= raw_columns[i]
                      /\ \A j \in 1..Len(columns) :
                            (j /= i /\ raw_columns[j] \in KnownKeys)
                               => columns[j] /= columns[i]

\* a known key renamed next to an unlisted job_ key that passed through
C8_Witness ==
    /\ renamed
    /\ raw_columns = <<"job_posted_at", "job_benefits">>
    /\ columns = <<"posted_at_relative", "job_benefits">>


-----------------------------------------------------------------------------
\* data_cleaning.py: skill extraction (step 3)

\* the tokens of the regular expressions of SKILL_CATEGORIES
Lit(str) == [kind |-> "lit", text |-> str]
WsStar == [kind |-> "\\s*", text |-> ""]
WsPlus == [kind |-> "\\s+", text |-> ""]
Ws == [kind |-> "\\s", text |-> ""]
WsOrDashOpt == [kind |-> "[\\s-]?", text |-> ""]

\* one skill: its name, the alternatives of its pattern after the leading \b,
\* and whether the pattern ends with \b
Skill(name, alts, trailing) == [skill |-> name, alts |-> alts, trailing_b |-> trailing]
Word(name, str) == Skill(name, {<<Lit(str)>>}, TRUE)
TwoWords(name, a, b) == Skill(name, {<<Lit(a), WsStar, Lit(b)>>}, TRUE)

\* lines 111-151, in the order of the dict
SKILL_CATEGORIES ==
    << [category |-> "Programming Languages", skills |-> <<
            Word("Python", "python"),
            Skill("R", {<<Lit("r"), WsPlus, Lit("programming")>>,
                        <<Lit("r"), Ws, Lit("language")>>}, FALSE),
            Word("SQL", "sql"),
            Word("Java", "java"),
            Word("JavaScript", "javascript"),
            Word("C++", "c++"),
            Word("C#", "c#"),
            Word("VBA", "vba") >>],
       [category |-> "Data Tools & Platforms", skills |-> <<
            Word("Tableau", "tableau"),
            TwoWords("Power BI", "power", "bi"),
            Word("Excel", "excel"),
            Word("Jupyter", "jupyter"),
            Word("Hadoop", "hadoop"),
            Word("Spark", "spark") >>],
       [category |-> "Databases", skills |-> <<
            Word("PostgreSQL", "postgresql"),
            Word("MySQL", "mysql"),
            Word("MongoDB", "mongodb"),
            Word("Oracle", "oracle"),
            TwoWords("SQL Server", "sql", "server") >>],
       [category |-> "Soft Skills", skills |-> <<
            Word("Communication", "communication"),
            Word("Leadership", "leadership"),
            Skill("Problem Solving",
                  {<<Lit("problem"), WsOrDashOpt, Lit("solving")>>}, TRUE),
            Word("Collaboration", "collaboration"),
            TwoWords("Project Management", "project", "management") >>],
       [category |-> "Analysis & Statistics", skills |-> <<
            TwoWords("Statistical Analysis", "statistical", "analysis"),
            TwoWords("Data Analysis", "data", "analysis"),
            TwoWords("Predictive Modeling", "predictive", "modeling"),
            TwoWords("Machine Learning", "machine", "learning"),
            TwoWords("Data Visualization", "data", "visualization") >>] >>

\* re: \w and \s on the characters of a lower-cased text
WordChars ==
    {"a", "b", "c", "d", "e", "f", "g", "h", "i", "j", "k", "l", "m", "n", "o",
     "p", "q", "r", "s", "t", "u", "v", "w", "x", "y", "z", "0", "1", "2", "3",
     "4", "5", "6", "7", "8", "9", "_"}
SpaceChars == {" ", "\t", "\n", "\r", "\f"}

CharAt(text, i) == SubSeq(text, i, i)
IsWordAt(text, i) == i >= 1 /\ i <= Len(text) /\ CharAt(text, i) \in WordChars
IsSpaceAt(text, i) == i >= 1 /\ i <= Len(text) /\ CharAt(text, i) \in SpaceChars

\* re: \b between the characters i-1 and i
WordBoundary(text, i) == IsWordAt(text, i - 1) /= IsWordAt(text, i)

\* the positions a run of \s that starts at i can end before
SpaceRunEnds(text, i) ==
    {j \in i..(Len(text) + 1) : \A k \in i..(j - 1) : IsSpaceAt(text, k)}

\* re: the positions after a match of tokens[k..] that starts at i
RECURSIVE MatchEnds(_, _, _, _)
MatchEnds(text, i, tokens, k) ==
    IF k > Len(tokens) THEN {i}
    ELSE LET tok == tokens[k]
             nexts ==
                 CASE tok.kind = "lit" ->
                          IF /\ i + Len(tok.text) - 1 <= Len(text)
                             /\ SubSeq(text, i, i + Len(tok.text) - 1) = tok.text
                          THEN {i + Len(tok.text)} ELSE {}
                   [] tok.kind = "\\s*" -> SpaceRunEnds(text, i)
                   [] tok.kind = "\\s+" -> SpaceRunEnds(text, i) \ {i}
                   [] tok.kind = "\\s" -> IF IsSpaceAt(text, i) THEN {i + 1} ELSE {}
                   [] tok.kind = "[\\s-]?" ->
                          {i} \cup (IF IsSpaceAt(text, i)
                                       \/ (i <= Len(text) /\ CharAt(text, i) = "-")
                                    THEN {i + 1} ELSE {})
         IN  UNION {MatchEnds(text, j, tokens, k + 1) : j \in nexts}

\* line 163: re.search(pattern, text)
Search(skill, text) ==
    \E i \in 1..(Len(text) + 1) :
        /\ WordBoundary(text, i)
        /\ \E alt \in skill.alts : \E j \in MatchEnds(text, i, alt, 1) :
               skill.trailing_b => WordBoundary(text, j)

\* lines 161-164: the skills found, in the order of the dict
AllSkills == [i \in 1..Len(SKILL_CATEGORIES) |-> SKILL_CATEGORIES[i].skills]
RECURSIVE Flatten(_)
Flatten(seqs) == IF seqs = <<>> THEN <<>> ELSE Head(seqs) \o Flatten(Tail(seqs))

RECURSIVE FoundSkills(_, _)
FoundSkills(skills, text) ==
    IF skills = <<>> THEN <<>>
    ELSE (IF Search(Head(skills), text) THEN <<Head(skills).skill>> ELSE <<>>)
         \o FoundSkills(Tail(skills), text)

\* lines 153-166
extract_skills(text) ==
    IF IsNa(text) THEN <<>>
    ELSE FoundSkills(Flatten(AllSkills), Lower(text[1]))

\* SKILL_CATEGORIES[category]: the skill names of a category
SkillNames(cat) == {cat.skills[i].skill : i \in 1..Len(cat.skills)}

\* a mutant: all() in place of any()
HasCategory_all(x, cat) == \A i \in 1..Len(x) : x[i] \in SkillNames(cat)

\* line 188: any(skill in SKILL_CATEGORIES[category] for skill in x)
HasCategory(x, cat) == \E i \in 1..Len(x) : x[i] \in SkillNames(cat)

\* line 186: category.lower().replace(" ", "_")
RECURSIVE ReplaceSpaces(_)
ReplaceSpaces(str) ==
    IF Len(str) = 0 THEN ""
    ELSE (IF SubSeq(str, 1, 1) = " " THEN "_" ELSE SubSeq(str, 1, 1))
         \o ReplaceSpaces(SubSeq(str, 2, Len(str)))

col_name(category) == "has_" \o ReplaceSpaces(Lower(category))


-----------------------------------------------------------------------------
\* data_cleaning.py: salary (step 2) and location (step 4)

\* a JSON value of a salary field: a number or a text
Num(n) == [number |-> n]
Str(str) == [text |-> str]

Digits == <<"0", "1", "2", "3", "4", "5", "6", "7", "8", "9">>
IsDigits(str) ==
    /\ Len(str) > 0
    /\ \A i \in 1..Len(str) : \E d \in 1..10 : SubSeq(str, i, i) = Digits[d]
DigitValue(c) == (CHOOSE d \in 1..10 : Digits[d] = c) - 1
RECURSIVE ParseDigits(_)
ParseDigits(str) ==
    IF Len(str) = 0 THEN 0
    ELSE 10 * ParseDigits(SubSeq(str, 1, Len(str) - 1))
         + DigitValue(SubSeq(str, Len(str), Len(str)))

\* lines 71-72: pd.to_numeric(..., errors='coerce')
to_numeric(cell) ==
    IF IsNa(cell) THEN Missing
    ELSE IF "number" \in DOMAIN cell[1] THEN Some(cell[1].number)
    ELSE IF IsDigits(cell[1].text) THEN Some(ParseDigits(cell[1].text))
    ELSE Missing

\* lines 77-81
SalaryPeriod(cell) ==
    CASE cell = Some("YEAR") -> Some("YEARLY")
      [] cell = Some("MONTH") -> Some("MONTHLY")
      [] cell = Some("HOUR") -> Some("HOURLY")
      [] OTHER -> cell

\* line 88: (max + min) / 2, as <<whole part, halves>>
AvgSalary(min, max) ==
    IF IsNa(min) \/ IsNa(max) THEN Missing
    ELSE Some(<<(max[1] + min[1]) \div 2, (max[1] + min[1]) % 2>>)

\* line 92
SalaryRange(min, max) ==
    IF IsNa(min) \/ IsNa(max) THEN Missing ELSE Some(max[1] - min[1])

\* lines 213-264
STATE_ABBREVIATIONS ==
    {
     <<"AL", "Alabama">>, <<"AK", "Alaska">>, <<"AZ", "Arizona">>,
     <<"AR", "Arkansas">>, <<"CA", "California">>, <<"CO", "Colorado">>,
     <<"CT", "Connecticut">>, <<"DE", "Delaware">>, <<"FL", "Florida">>,
     <<"GA", "Georgia">>, <<"HI", "Hawaii">>, <<"ID", "Idaho">>,
     <<"IL", "Illinois">>, <<"IN", "Indiana">>, <<"IA", "Iowa">>,
     <<"KS", "Kansas">>, <<"KY", "Kentucky">>, <<"LA", "Louisiana">>,
     <<"ME", "Maine">>, <<"MD", "Maryland">>, <<"MA", "Massachusetts">>,
     <<"MI", "Michigan">>, <<"MN", "Minnesota">>, <<"MS", "Mississippi">>,
     <<"MO", "Missouri">>, <<"MT", "Montana">>, <<"NE", "Nebraska">>,
     <<"NV", "Nevada">>, <<"NH", "New Hampshire">>, <<"NJ", "New Jersey">>,
     <<"NM", "New Mexico">>, <<"NY", "New York">>, <<"NC", "North Carolina">>,
     <<"ND", "North Dakota">>, <<"OH", "Ohio">>, <<"OK", "Oklahoma">>,
     <<"OR", "Oregon">>, <<"PA", "Pennsylvania">>, <<"RI", "Rhode Island">>,
     <<"SC", "South Carolina">>, <<"SD", "South Dakota">>, <<"TN", "Tennessee">>,
     <<"TX", "Texas">>, <<"UT", "Utah">>, <<"VT", "Vermont">>,
     <<"VA", "Virginia">>, <<"WA", "Washington">>, <<"WV", "West Virginia">>,
     <<"WI", "Wisconsin">>, <<"WY", "Wyoming">> }

\* line 267: Series.replace(STATE_ABBREVIATIONS) on one cell
ReplaceState(cell) ==
    IF \E pair \in STATE_ABBREVIATIONS : cell = Some(pair[1])
    THEN Some((CHOOSE pair \in STATE_ABBREVIATIONS : cell = Some(pair[1]))[2])
    ELSE cell

\* line 272
LocationString(city, state) ==
    IF ~IsNa(city) /\ ~IsNa(state) THEN Some(city[1] \o ", " \o state[1]) ELSE Missing

\* a mutant: the location string is built before the states are replaced
Location_before_replace(row) ==
    [c \in DOMAIN row \cup {"location_standardized"} |->
        CASE c = "state" -> ReplaceState(row["state"])
          [] c = "location_standardized" -> LocationString(row["city"], row["state"])
          [] OTHER -> row[c]]

\* lines 267-274 on one row
Location(row) ==
    [c \in DOMAIN row \cup {"location_standardized"} |->
        CASE c = "state" -> ReplaceState(row["state"])
          [] c = "location_standardized" ->
                 LocationString(row["city"], ReplaceState(row["state"]))
          [] OTHER -> row[c]]


-----------------------------------------------------------------------------
\* data_cleaning.py: the script, section by section

\* the columns of a DataFrame built from a list of records
DataFrameColumns(records) == UNION {DOMAIN records[i] : i \in 1..Len(records)}

\* a mutant: the rows come out in reverse order
DataFrame_reversed(records) ==
    [i \in 1..Len(records) |->
        [c \in DataFrameColumns(records) |->
            IF c \in DOMAIN records[Len(records) + 1 - i]
            THEN records[Len(records) + 1 - i][c] ELSE Missing]]

\* line 24: pd.DataFrame(raw_jobs), one row per record and a column per key
DataFrame(records) ==
    [i \in 1..Len(records) |->
        [c \in DataFrameColumns(records) |->
            IF c \in DOMAIN records[i] THEN records[i][c] ELSE Missing]]

\* line 55: df.rename(columns=rename_mapping) on one row
RenameRow(row) ==
    [n \in {RenameColumn(k) : k \in DOMAIN row} |->
        row[CHOOSE k \in DOMAIN row : RenameColumn(k) = n]]

\* df[col] = value, for the columns of updates
Assign(row, updates) ==
    [c \in DOMAIN row \cup DOMAIN updates |->
        IF c \in DOMAIN updates THEN updates[c] ELSE row[c]]

\* lines 71-92 on one row
Salary(row) ==
    LET min == to_numeric(row["min_salary"])
        max == to_numeric(row["max_salary"])
    IN  Assign(row, [min_salary |-> min, max_salary |-> max,
                     salary_period |-> SalaryPeriod(row["salary_period"]),
                     avg_salary |-> AvgSalary(min, max),
                     salary_range |-> SalaryRange(min, max)])

\* lines 185-189: the has_ columns of one skills list
CategoryColumns(x) ==
    [c \in {col_name(SKILL_CATEGORIES[k].category) : k \in 1..Len(SKILL_CATEGORIES)} |->
        HasCategory(x, SKILL_CATEGORIES[CHOOSE k \in 1..Len(SKILL_CATEGORIES) :
                                            col_name(SKILL_CATEGORIES[k].category) = c])]

\* lines 169-189 on one row
Skills(row) ==
    LET x == extract_skills(row["description"])
    IN  Assign(Assign(row, [skills |-> x]), CategoryColumns(x))

\* the columns that hold text
TextColumns == {"id", "title", "description", "city", "state", "country",
                "salary_period", "location_standardized", "employer_name"}

\* line 323: to_csv writes a missing cell as an empty field and a text as it is
WriteCsvRow(row) ==
    [c \in DOMAIN row |->
        IF c \in TextColumns THEN (IF IsNa(row[c]) THEN "" ELSE row[c][1]) ELSE row[c]]

\* pandas: the fields read_csv takes for missing values
NaValues == {"", "#N/A", "#N/A N/A", "#NA", "-1.#IND", "-1.#QNAN", "-NaN", "-nan",
             "1.#IND", "1.#QNAN", "<NA>", "N/A", "NA", "NULL", "NaN", "None",
             "n/a", "nan", "null"}
ReadCsvText(field) == IF field \in NaValues THEN Missing ELSE Some(field)

\* data_validation.py line 15: the columns of cleaned_jobs.csv that the
\* validation reads or changes
ReadCsv(file) ==
    [i \in 1..Len(file) |->
        [index |-> i - 1,
         id |-> ReadCsvText(file[i]["id"]),
         title |-> ReadCsvText(file[i]["title"]),
         min_salary |-> file[i]["min_salary"],
         max_salary |-> file[i]["max_salary"],
         has_databases |-> Some(file[i]["has_databases"]),
         seniority_level |-> Missing]]

\* lines 19-57, step 1
Parse ==
    /\ cphase = "start"
    /\ cphase' = "parsed"
    /\ clean_columns' = {RenameColumn(c) : c \in DataFrameColumns(raw_jobs)}
    /\ clean_df' = [i \in 1..Len(raw_jobs) |-> RenameRow(DataFrame(raw_jobs)[i])]
    /\ UNCHANGED <<raw_jobs, clean_salary_errors, cleaned_csv>>
    /\ UNCHANGED <<fetchVars, valVars, senVars, renVars>>

\* lines 67-101, step 2; df[c] raises KeyError when the table has no column c
NormalizeSalary ==
    /\ cphase = "parsed"
    /\ IF {"min_salary", "max_salary", "salary_period"} \subseteq clean_columns
       THEN /\ cphase' = "salary"
            /\ clean_df' = [i \in 1..Len(clean_df) |-> Salary(clean_df[i])]
            /\ clean_columns' = clean_columns \cup {"avg_salary", "salary_range"}
       ELSE /\ cphase' = "KeyError"
            /\ UNCHANGED <<clean_df, clean_columns>>
    /\ UNCHANGED <<raw_jobs, clean_salary_errors, cleaned_csv>>
    /\ UNCHANGED <<fetchVars, valVars, senVars, renVars>>

\* lines 168-198, step 3; df[c] raises KeyError when the table has no column c
ExtractSkills ==
    /\ cphase = "salary"
    /\ IF {"description"} \subseteq clean_columns
       THEN /\ cphase' = "skills"
            /\ clean_df' = [i \in 1..Len(clean_df) |-> Skills(clean_df[i])]
            /\ clean_columns' = clean_columns \cup ({"skills"} \cup DOMAIN CategoryColumns(<<>>))
       ELSE /\ cphase' = "KeyError"
            /\ UNCHANGED <<clean_df, clean_columns>>
    /\ UNCHANGED <<raw_jobs, clean_salary_errors, cleaned_csv>>
    /\ UNCHANGED <<fetchVars, valVars, senVars, renVars>>

\* lines 207-296, step 4; df[c] raises KeyError when the table has no column c
StandardizeLocation ==
    /\ cphase = "skills"
    /\ IF {"city", "state", "country", "latitude", "longitude", "is_remote"} \subseteq clean_columns
       THEN /\ cphase' = "location"
            /\ clean_df' = [i \in 1..Len(clean_df) |-> Location(clean_df[i])]
            /\ clean_columns' = clean_columns \cup {"location_standardized"}
       ELSE /\ cphase' = "KeyError"
            /\ UNCHANGED <<clean_df, clean_columns>>
    /\ UNCHANGED <<raw_jobs, clean_salary_errors, cleaned_csv>>
    /\ UNCHANGED <<fetchVars, valVars, senVars, renVars>>

\* lines 305-329: the final checks only count and print, then the table is saved
SaveCleaned ==
    /\ cphase = "location"
    /\ IF {"min_salary", "max_salary", "id", "title", "description", "city", "state",
           "country"} \subseteq clean_columns
       THEN /\ cphase' = "saved"
            /\ clean_salary_errors' = SalaryErrorsCleaning(clean_df)
            /\ cleaned_csv' = [i \in 1..Len(clean_df) |-> WriteCsvRow(clean_df[i])]
       ELSE /\ cphase' = "KeyError"
            /\ UNCHANGED <<clean_salary_errors, cleaned_csv>>
    /\ UNCHANGED <<raw_jobs, clean_columns, clean_df>>
    /\ UNCHANGED <<fetchVars, valVars, senVars, renVars>>

\* data_validation.py line 15, run on the file the cleaning script wrote
LoadCleaned ==
    /\ cphase = "saved"
    /\ vphase = "idle"
    /\ vphase' = "loaded"
    /\ df' = ReadCsv(cleaned_csv)
    /\ UNCHANGED <<df_validated, rows_removed_critical, duplicates, salary_errors,
                   validated_csv>>
    /\ UNCHANGED <<fetchVars, senVars, renVars, cleanVars>>


-----------------------------------------------------------------------------
\* The pipeline: raw_jobs.json -> data_cleaning.py -> cleaned_jobs.csv ->
\* data_validation.py -> the validated table

\* the longest description, in fragments
MaxDescFragments == 2

DescFragments ==
    {"Python", "SQL", " ", "Server", " Server", "MySQL", "C++", "c#",
     "R programming", "Excel", "lent", "Power", "BI", "problem-", "solving",
     "data ", "analysis", ".", "Java", "Script"}

RECURSIVE DescriptionsOfLen(_)
DescriptionsOfLen(n) ==
    IF n = 0 THEN {""}
    ELSE {t \o f : t \in DescriptionsOfLen(n - 1), f \in DescFragments}

Descriptions == UNION {DescriptionsOfLen(n) : n \in 0..MaxDescFragments}

\* a record of the "data" array, with the keys the cleaning script reads
RawRecord(id, job_title, description, city, state, min, max) ==
    [job_id |-> id, job_title |-> job_title, job_description |-> description,
     job_city |-> city, job_state |-> state, job_country |-> Some("US"),
     job_latitude |-> Some(30), job_longitude |-> Some(-97),
     job_is_remote |-> Some(FALSE), job_min_salary |-> min, job_max_salary |-> max,
     job_salary_period |-> Some("YEAR"), employer_name |-> Some("Acme")]

\* records that differ in the description only
DescriptionRecords ==
    {RawRecord(Some("a"), Some("Data Analyst"), d, Some("Austin"), Some("TX"),
               Missing, Missing) : d \in {Missing} \cup {Some(t) : t \in Descriptions}}

\* records that differ in the city and the state only
CityCells == {Missing, Some("Austin"), Some("")}
StateCells == {Missing, Some("TX"), Some("tx"), Some("Texas"), Some("ON"), Some("IN")}
LocationRecords ==
    {RawRecord(Some("a"), Some("Data Analyst"), Some("SQL"), c, st, Missing, Missing) :
        c \in CityCells, st \in StateCells}

\* (description, min, max) of the records of a list
Profiles ==
    {<<Missing, Missing, Missing>>,
     <<Some("MySQL and Excel"), Some(Num(2)), Some(Str("1"))>>,
     <<Some("Excellent"), Some(Str("competitive")), Some(Num(1))>>}
ListTitleCells == TitleCells \cup {Some("")}
ListRecords ==
    {RawRecord(id, t, pr[1], Some("Austin"), Some("TX"), pr[2], pr[3]) :
        id \in IdCells, t \in ListTitleCells, pr \in Profiles}

\* lines 21-22: raw_jobs = json.load(f)
InitPipeline ==
    /\ FetchIdle
    /\ ValidateIdle
    /\ SeniorityIdle
    /\ RenameIdle
    /\ cphase = "start"
    /\ \/ \E n \in 0..MaxRows : raw_jobs \in [1..n -> ListRecords]
       \/ \E r \in DescriptionRecords \cup LocationRecords : raw_jobs = <<r>>
    /\ clean_columns = {}
    /\ clean_df = <<>>
    /\ clean_salary_errors = 0
    /\ cleaned_csv = NoFile

NextPipeline ==
    \/ Parse
    \/ NormalizeSalary
    \/ ExtractSkills
    \/ StandardizeLocation
    \/ SaveCleaned
    \/ LoadCleaned
    \/ HandleMissing
    \/ RemoveDuplicates
    \/ ValidateQuality
    \/ CategorizeTitles
    \/ ReportAndSave

SpecPipeline == InitPipeline /\ [][NextPipeline]_vars


-----------------------------------------------------------------------------
\* Properties of the cleaning script and of the pipeline

\* the has_ column of each category and the skills that belong to it
CategorySkills ==
    {<<"has_programming_languages",
       {"Python", "R", "SQL", "Java", "JavaScript", "C++", "C#", "VBA"}>>,
     <<"has_data_tools_&_platforms",
       {"Tableau", "Power BI", "Excel", "Jupyter", "Hadoop", "Spark"}>>,
     <<"has_databases", {"PostgreSQL", "MySQL", "MongoDB", "Oracle", "SQL Server"}>>,
     <<"has_soft_skills",
       {"Communication", "Leadership", "Problem Solving", "Collaboration",
        "Project Management"}>>,
     <<"has_analysis_&_statistics",
       {"Statistical Analysis", "Data Analysis", "Predictive Modeling",
        "Machine Learning", "Data Visualization"}>>}

SkillsExtracted == cphase \in {"skills", "location", "saved"}

\* C14: once the skill columns exist, in every row each has_<category> flag is
\* true exactly when the skills list of the row holds a skill of that category,
\* and a row without a description has an empty skills list and no flag set
C14_SkillFlags ==
    SkillsExtracted =>
        \A i \in 1..Len(clean_df) :
            LET row == clean_df[i] IN
            /\ \A cs \in CategorySkills :
                   row[cs[1]] = (\E k \in 1..Len(row["skills"]) : row["skills"][k] \in cs[2])
            /\ IsNa(row["description"]) =>
                   /\ row["skills"] = <<>>
                   /\ \A cs \in CategorySkills : row[cs[1]] = FALSE

\* a table whose first row has no description and whose second row names a
\* database and a data tool
C14_Witness ==
    /\ SkillsExtracted
    /\ Len(clean_df) = 2
    /\ IsNa(clean_df[1]["description"])
    /\ clean_df[1]["skills"] = <<>>
    /\ ~clean_df[1]["has_databases"]
    /\ clean_df[2]["description"] = Some("MySQL and Excel")
    /\ clean_df[2]["skills"] = <<"Excel", "MySQL">>
    /\ clean_df[2]["has_databases"]
    /\ clean_df[2]["has_data_tools_&_platforms"]
    /\ ~clean_df[2]["has_programming_languages"]


LocationStandardized == cphase \in {"location", "saved"}

\* the cell holds one of the fifty abbreviations
IsAbbreviation(cell) == \E pair \in STATE_ABBREVIATIONS : cell = Some(pair[1])

\* C15: once step 4 has run, every row's location_standardized is
\* "<city>, <state>" with the state as it stands after the abbreviations were
\* replaced by full names when city and state are both present, and missing
\* when either is missing; a state that is no known abbreviation is unchanged
C15_LocationAfterStateReplace ==
    LocationStandardized =>
        \A i \in 1..Len(clean_df) :
            LET row == clean_df[i]
                city == raw_jobs[i].job_city
                state == raw_jobs[i].job_state
            IN  /\ row["city"] = city
                /\ IsAbbreviation(state) =>
                       \E pair \in STATE_ABBREVIATIONS :
                           state = Some(pair[1]) /\ row["state"] = Some(pair[2])
                /\ state = Some("TX") => row["state"] = Some("Texas")
                /\ state = Some("IN") => row["state"] = Some("Indiana")
                /\ ~IsAbbreviation(state) => row["state"] = state
                /\ IsNa(city) \/ IsNa(state) => IsNa(row["location_standardized"])
                /\ ~IsNa(city) /\ ~IsNa(state) =>
                       row["location_standardized"]
                           = Some(city[1] \o ", " \o row["state"][1])

\* Austin, TX has become "Austin, Texas"
C15_Witness ==
    /\ LocationStandardized
    /\ Len(clean_df) = 1
    /\ raw_jobs[1].job_city = Some("Austin")
    /\ raw_jobs[1].job_state = Some("TX")
    /\ raw_jobs[1].job_description = Some("SQL")
    /\ clean_df[1]["state"] = Some("Texas")
    /\ clean_df[1]["location_standardized"] = Some("Austin, Texas")


\* C16: in the validated table that is saved, every row has an id and a title,
\* no id occurs twice, each row is the first row of the loaded cleaned table
\* that carries its id together with a title, and every id that some loaded
\* row carries together with a title occurs exactly once
C16_ValidatedOutput ==
    vphase = "saved" =>
        /\ \A k \in 1..Len(validated_csv) :
               /\ ~IsNa(validated_csv[k].id)
               /\ ~IsNa(validated_csv[k].title)
        /\ \A k \in 1..Len(validated_csv) : \A l \in 1..Len(validated_csv) :
               k /= l => validated_csv[k].id /= validated_csv[l].id
        /\ \A k \in 1..Len(validated_csv) :
               LET i == validated_csv[k].index + 1 IN
               /\ i \in 1..Len(df)
               /\ df[i].id = validated_csv[k].id
               /\ df[i].title = validated_csv[k].title
               /\ \A j \in 1..(i - 1) : ~(df[j].id = df[i].id /\ ~IsNa(df[j].title))
        /\ \A i \in 1..Len(df) :
               ~IsNa(df[i].id) /\ ~IsNa(df[i].title) =>
                   Cardinality({k \in 1..Len(validated_csv) :
                                    validated_csv[k].id = df[i].id}) = 1

\* the first row of an id has no title: the saved row of that id is the second
C16_Witness ==
    /\ vphase = "saved"
    /\ Len(df) = 2
    /\ df[1].id = Some("a")
    /\ IsNa(df[1].title)
    /\ df[2].id = Some("a")
    /\ ~IsNa(df[2].title)
    /\ Len(validated_csv) = 1
    /\ validated_csv[1].index = 1


Cleaned == cphase \in {"parsed", "salary", "skills", "location", "saved"}

\* table t keeps, in order, rows of the loaded table df and nothing else
IsSubsequenceOfLoaded(t) ==
    /\ Len(t) <= Len(df)
    /\ \A k \in 1..Len(t) :
           /\ t[k].index + 1 \in 1..Len(df)
           /\ t[k].id = df[t[k].index + 1].id
           /\ t[k].title = df[t[k].index + 1].title
           /\ t[k].min_salary = df[t[k].index + 1].min_salary
           /\ t[k].max_salary = df[t[k].index + 1].max_salary
    /\ \A k \in 1..Len(t) : \A l \in 1..Len(t) : k < l => t[k].index < t[l].index

\* C17: the cleaned table, in memory and as written, has exactly one row per
\* raw record in the order of the records; the table the validation loads has
\* the same rows, and the validated table is a subsequence of it, so validated
\* row count <= cleaned row count = raw record count
C17_RowConservation ==
    /\ Cleaned =>
           /\ Len(clean_df) = Len(raw_jobs)
           /\ \A i \in 1..Len(raw_jobs) :
                  /\ clean_df[i]["id"] = raw_jobs[i].job_id
                  /\ clean_df[i]["title"] = raw_jobs[i].job_title
                  /\ clean_df[i]["description"] = raw_jobs[i].job_description
    /\ cphase = "saved" =>
           /\ Len(cleaned_csv) = Len(raw_jobs)
           /\ \A i \in 1..Len(raw_jobs) :
                  /\ cleaned_csv[i]["id"] = WriteCsvRow(clean_df[i])["id"]
                  /\ cleaned_csv[i]["title"] = WriteCsvRow(clean_df[i])["title"]
    /\ vphase /= "idle" =>
           /\ Len(df) = Len(raw_jobs)
           /\ \A i \in 1..Len(df) :
                  /\ df[i].index = i - 1
                  /\ df[i].id = ReadCsvText(cleaned_csv[i]["id"])
                  /\ df[i].title = ReadCsvText(cleaned_csv[i]["title"])
    /\ vphase \in AfterMissing =>
           /\ IsSubsequenceOfLoaded(df_validated)
           /\ Len(df_validated) <= Len(raw_jobs)
    /\ vphase = "saved" =>
           /\ IsSubsequenceOfLoaded(validated_csv)
           /\ Len(validated_csv) <= Len(cleaned_csv)

\* two records with different ids, the first without a title: both are in the
\* cleaned file in that order, and the validated file holds the second only
C17_Witness ==
    /\ cphase = "saved"
    /\ vphase = "saved"
    /\ Len(raw_jobs) = 2
    /\ raw_jobs[1].job_id = Some("b")
    /\ IsNa(raw_jobs[1].job_title)
    /\ raw_jobs[2].job_id = Some("a")
    /\ cleaned_csv[1]["id"] = "b"
    /\ cleaned_csv[2]["id"] = "a"
    /\ Len(validated_csv) = 1
    /\ validated_csv[1].index = 1
    /\ validated_csv[1].id = Some("a")


\* C18: no stage of the pipeline stops with an exception, whatever list of
\* records raw_jobs.json holds, the empty list included, and whatever table
\* the cleaning script hands to the validation
C18_EveryStageCompletes ==
    /\ cphase /= "KeyError"
    /\ vphase /= "ZeroDivisionError"

=============================================================================
